---- MODULE Spec2Model ----
(***************************************************************************)
(* Campaign-generation pipeline of src/lib/agent.ts:                       *)
(*   buildStrategy -> buildAssets -> buildCalendar -> buildExportBundle    *)
(* driven by generate() of the CampaignAgent component (src/app/page.tsx), *)
(* and the two serializers toCalendarCsv / buildIcs.                       *)
(*                                                                         *)
(* A JavaScript string is a TLA+ string.  Every operation on strings is    *)
(* computed character by character (At(s, i) is the i-th character), so    *)
(* toLowerCase, includes, match, replace, slice, split and join do what    *)
(* the JavaScript methods do.  A JavaScript array is a sequence.           *)
(***************************************************************************)
EXTENDS Integers, Sequences, FiniteSets, TLC

VARIABLES input, tz, strategy, assets, calendar, bundle, error, pc,
          csvText, icsText, slug

vars == <<input, tz, strategy, assets, calendar, bundle, error, pc,
          csvText, icsText, slug>>

(* An optional value: None when absent (null, undefined), Some(x) when present *)
None == <<>>
Some(x) == <<x>>
IsSome(o) == Len(o) = 1

(***************************************************************************)
(* Strings                                                                 *)
(***************************************************************************)

(* the i-th character (1-based) and the string after the first character *)
At(s, i) == SubSeq(s, i, i)
Rest(s) == SubSeq(s, 2, Len(s))

UPPER == "ABCDEFGHIJKLMNOPQRSTUVWXYZ"
LOWER == "abcdefghijklmnopqrstuvwxyz"
DIGITS == "0123456789"

CharSet(s) == {At(s, i) : i \in 1..Len(s)}

LowerSet == CharSet(LOWER)
DigitSet == CharSet(DIGITS)

(* 1-based position of the character c in the alphabet a *)
position(a, c) == CHOOSE i \in 1..Len(a) : At(a, i) = c

(* String.prototype.toLowerCase / toUpperCase, one character *)
lowerChar(c) == IF c \in CharSet(UPPER) THEN At(LOWER, position(UPPER, c)) ELSE c
upperChar(c) == IF c \in LowerSet THEN At(UPPER, position(LOWER, c)) ELSE c

(* the characters are mapped one by one; the string is halved to keep the   *)
(* evaluation shallow                                                      *)
RECURSIVE toLowerCase(_)
toLowerCase(s) ==
  IF Len(s) = 0 THEN ""
  ELSE IF Len(s) = 1 THEN lowerChar(s)
  ELSE toLowerCase(SubSeq(s, 1, Len(s) \div 2))
         \o toLowerCase(SubSeq(s, (Len(s) \div 2) + 1, Len(s)))

(* s.slice(from) and s.slice(0, n), 0-based as in JavaScript *)
sliceFrom(s, from) == SubSeq(s, from + 1, Len(s))
sliceTo(s, n) == SubSeq(s, 1, IF n < Len(s) THEN n ELSE Len(s))

(* s.indexOf(t): 1-based position of the first occurrence of t in s, 0 if none *)
indexOf(s, t) ==
  LET hits == {i \in 1..(Len(s) - Len(t) + 1) : SubSeq(s, i, i + Len(t) - 1) = t}
  IN IF hits = {} THEN 0 ELSE CHOOSE i \in hits : \A j \in hits : i <= j

(* s.includes(t) for strings *)
includes(s, t) == indexOf(s, t) # 0

(* s.match(/t/i): case-insensitive search for the literal t *)
matchI(s, t) == includes(toLowerCase(s), toLowerCase(t))

startsWith(s, t) == Len(t) <= Len(s) /\ SubSeq(s, 1, Len(t)) = t

(* Array.prototype.join *)
RECURSIVE join(_, _)
join(parts, sep) ==
  IF Len(parts) = 0 THEN ""
  ELSE IF Len(parts) = 1 THEN parts[1]
  ELSE parts[1] \o sep \o join(Tail(parts), sep)

(* sentenceCase, agent.ts line 46 *)
sentenceCase(s) ==
  IF Len(s) = 0 THEN s ELSE upperChar(At(s, 1)) \o sliceFrom(s, 1)

(* s.replace(/c/g, with) for a single character c *)
RECURSIVE replaceChar(_, _, _)
replaceChar(s, c, with) ==
  IF Len(s) = 0 THEN ""
  ELSE IF Len(s) = 1 THEN (IF s = c THEN with ELSE s)
  ELSE replaceChar(SubSeq(s, 1, Len(s) \div 2), c, with)
         \o replaceChar(SubSeq(s, (Len(s) \div 2) + 1, Len(s)), c, with)

(* s.split(c) for a single character c *)
RECURSIVE split(_, _)
split(s, c) ==
  LET i == indexOf(s, c)
  IN IF i = 0 THEN <<s>>
     ELSE <<SubSeq(s, 1, i - 1)>> \o split(SubSeq(s, i + 1, Len(s)), c)

(* non-negative integer to decimal digits, and zero-padded formatting *)
RECURSIVE digits(_)
digits(n) ==
  IF n < 10 THEN At(DIGITS, n + 1) ELSE digits(n \div 10) \o At(DIGITS, (n % 10) + 1)

RECURSIVE pad(_, _)
pad(s, width) == IF Len(s) >= width THEN s ELSE pad("0" \o s, width)

(* decimal digits to number *)
RECURSIVE parseInt(_)
parseInt(s) ==
  IF Len(s) = 0 THEN 0
  ELSE parseInt(SubSeq(s, 1, Len(s) - 1)) * 10 + (position(DIGITS, At(s, Len(s))) - 1)

(***************************************************************************)
(* slugify, agent.ts lines 114-116                                         *)
(***************************************************************************)

(* The slice(0, 60) limit of slugify *)
SlugMaxLen == 60

isSlugChar(c) == c \in LowerSet \/ c \in DigitSet

(* .replace(/[^a-z0-9]+/g, '-'): every maximal run becomes one hyphen *)
RECURSIVE replaceRuns(_, _)
replaceRuns(s, inRun) ==
  IF Len(s) = 0 THEN ""
  ELSE IF isSlugChar(At(s, 1)) THEN At(s, 1) \o replaceRuns(Rest(s), FALSE)
  ELSE (IF inRun THEN "" ELSE "-") \o replaceRuns(Rest(s), TRUE)

(* .replace(/(^-|-$)/g, ''): a hyphen at the start and a hyphen at the end *)
stripEdgeHyphens(s) ==
  LET a == IF Len(s) > 0 /\ At(s, 1) = "-" THEN Rest(s) ELSE s
  IN IF Len(a) > 0 /\ At(a, Len(a)) = "-" THEN SubSeq(a, 1, Len(a) - 1) ELSE a

(* slugify without the stripping of the edge hyphens *)
slugify_EdgeHyphensKept(s) ==
  sliceTo(replaceRuns(toLowerCase(s), FALSE), SlugMaxLen)

slugify(s) ==
  sliceTo(stripEdgeHyphens(replaceRuns(toLowerCase(s), FALSE)), SlugMaxLen)

(***************************************************************************)
(* dayjs.  A local-mode Dayjs value is [day, min]: the civil day number    *)
(* (days since 1970-01-01) and the minute of the day on the local clock;   *)
(* tz is the local UTC offset in minutes.  An ISO string is the character  *)
(* sequence YYYY-MM-DDTHH:mm:ss.SSSZ of the same instant on the UTC clock. *)
(***************************************************************************)

MinutesPerDay == 1440

(* proleptic Gregorian calendar: day number -> [y, m, d] and back *)
civilFromDays(n) ==
  LET z == n + 719468
      era == z \div 146097
      doe == z - era * 146097
      yoe == (doe - (doe \div 1460) + (doe \div 36524) - (doe \div 146096)) \div 365
      doy == doe - (365 * yoe + (yoe \div 4) - (yoe \div 100))
      mp == (5 * doy + 2) \div 153
      d == doy - ((153 * mp + 2) \div 5) + 1
      m == IF mp < 10 THEN mp + 3 ELSE mp - 9
      y == yoe + era * 400 + (IF m <= 2 THEN 1 ELSE 0)
  IN [y |-> y, m |-> m, d |-> d]

daysFromCivil(y0, m, d) ==
  LET y == IF m <= 2 THEN y0 - 1 ELSE y0
      era == y \div 400
      yoe == y - era * 400
      doy == ((153 * (IF m > 2 THEN m - 3 ELSE m + 9) + 2) \div 5) + d - 1
      doe == yoe * 365 + (yoe \div 4) - (yoe \div 100) + doy
  IN era * 146097 + doe - 719468

(* minutes since the epoch of a local-mode value, on the local clock *)
localMinutes(t) == t.day * MinutesPerDay + t.min

(* .startOf('day') *)
startOfDay(t) == [day |-> t.day, min |-> 0]

(* .add(n, 'day'): same wall-clock time n civil days later *)
addDays(t, n) == [day |-> t.day + n, min |-> t.min]

(* .toISOString(): the instant on the UTC clock *)
toISOString(t, zone) ==
  LET u == localMinutes(t) - zone
      c == civilFromDays(u \div MinutesPerDay)
      mod == u % MinutesPerDay
  IN pad(digits(c.y), 4) \o "-" \o pad(digits(c.m), 2) \o "-"
       \o pad(digits(c.d), 2) \o "T" \o pad(digits(mod \div 60), 2) \o ":"
       \o pad(digits(mod % 60), 2) \o ":00.000Z"

(* minutes since the epoch, UTC, of an ISO string *)
isoUtcMinutes(iso) ==
  daysFromCivil(parseInt(SubSeq(iso, 1, 4)), parseInt(SubSeq(iso, 6, 7)),
                parseInt(SubSeq(iso, 9, 10))) * MinutesPerDay
    + parseInt(SubSeq(iso, 12, 13)) * 60 + parseInt(SubSeq(iso, 15, 16))

(* dayjs(iso): the instant of an ISO string as a local-mode value *)
dayjsParse(iso, zone) ==
  LET l == isoUtcMinutes(iso) + zone
  IN [day |-> l \div MinutesPerDay, min |-> l % MinutesPerDay]

(* a.diff(b, 'day'): whole days between two instants, truncated toward zero *)
diffDays(a, b) ==
  LET m == localMinutes(a) - localMinutes(b)
  IN IF m < 0 THEN -((-m) \div MinutesPerDay) ELSE m \div MinutesPerDay

(* .format('YYYYMMDD[T]HHmmss[Z]') of a value on the UTC clock *)
formatIcs(u) ==
  LET c == civilFromDays(u.day)
  IN pad(digits(c.y), 4) \o pad(digits(c.m), 2) \o pad(digits(c.d), 2) \o "T"
       \o pad(digits(u.min \div 60), 2) \o pad(digits(u.min % 60), 2) \o "00Z"

(***************************************************************************)
(* buildStrategy, agent.ts lines 48-71                                     *)
(***************************************************************************)

(* The six channel tags of CampaignInput.channels, agent.ts line 9 *)
WEBSITE == "Website"
EMAIL == "Email"
LINKEDIN == "LinkedIn"
XTWITTER == "X/Twitter"
INSTAGRAM == "Instagram"
ADS == "Ads"

Channels == {WEBSITE, EMAIL, LINKEDIN, XTWITTER, INSTAGRAM, ADS}

(* Array.prototype.includes *)
arrayIncludes(arr, x) == \E i \in DOMAIN arr : arr[i] = x

(* the table `base`, lines 58-65; undefined for a key that is not in it *)
base(ch) ==
  CASE ch = WEBSITE ->
         [objective |-> "Convert qualified traffic",
          strategy |-> "Update hero, add social proof, launch comparison page",
          kpis |-> <<"Signup rate", "Bounce rate">>]
    [] ch = EMAIL ->
         [objective |-> "Nurture and activate",
          strategy |-> "3-email sequence: insight, case study, offer",
          kpis |-> <<"Open rate", "CTR", "Activations">>]
    [] ch = LINKEDIN ->
         [objective |-> "Educate and build trust",
          strategy |-> "Founder POV, carousel explainer, customer quote",
          kpis |-> <<"Impressions", "Engagement rate">>]
    [] ch = XTWITTER ->
         [objective |-> "Spark conversation",
          strategy |-> "Thread on problem framing + micro-demos",
          kpis |-> <<"Replies", "Profile visits">>]
    [] ch = INSTAGRAM ->
         [objective |-> "Show product visually",
          strategy |-> "Short reels of ?before/after? analytics moments",
          kpis |-> <<"Views", "Saves">>]
    [] ch = ADS ->
         [objective |-> "Capture demand",
          strategy |-> "Search on intent + retargeting with proof",
          kpis |-> <<"CPC", "CVR">>]
    [] OTHER -> None

(* channelsPlan[ch] = base[ch]: the property ch is created or overwritten *)
setKey(obj, k, v) == [x \in (DOMAIN obj) \cup {k} |-> IF x = k THEN v ELSE obj[x]]

(* planForEach with a loop that stops one element early *)
RECURSIVE planForEach_StopsEarly(_, _, _)
planForEach_StopsEarly(channels, i, plan) ==
  IF i >= Len(channels) THEN plan
  ELSE planForEach_StopsEarly(channels, i + 1,
                              setKey(plan, channels[i], base(channels[i])))

(* input.channels.forEach(...), lines 57-68, from element i on *)
RECURSIVE planForEach(_, _, _)
planForEach(channels, i, plan) ==
  IF i > Len(channels) THEN plan
  ELSE planForEach(channels, i + 1, setKey(plan, channels[i], base(channels[i])))

valueProps ==
  << "Set up in minutes, not weeks",
     "Privacy-first by design",
     "Crystal-clear funnels and cohort analysis",
     "Actionable AI insights, not vanity metrics" >>

buildStrategy(in) ==
  [ primaryMessage |->
      in.productName \o ": " \o sentenceCase(in.tone) \o " solution to "
        \o toLowerCase(in.goal) \o " for " \o toLowerCase(in.audience)
        \o ".",
    valueProps |-> valueProps,
    personaSummary |->
      "For " \o in.audience \o ". They seek outcomes: "
        \o sentenceCase(in.goal)
        \o ". They value credibility, proof, and time-to-value. Tone: "
        \o in.tone \o ".",
    channelsPlan |-> planForEach(in.channels, 1, <<>>) ]

(***************************************************************************)
(* buildAssets, agent.ts lines 73-112                                      *)
(***************************************************************************)

NL == "\n"

(* bullets, lines 73-75 *)
bullets(strings) ==
  join([i \in DOMAIN strings |-> "? " \o strings[i]], NL)

(* buildSocial with one entry per requested social channel, in the order   *)
(* of input.channels                                                       *)
buildSocial_InputOrder(in, strat) ==
  LET picked == SelectSeq(in.channels,
                          LAMBDA c : c \in {LINKEDIN, XTWITTER, INSTAGRAM})
  IN [i \in DOMAIN picked |-> [channel |-> picked[i], text |-> in.productName]]

(* the social list, lines 101-110 *)
buildSocial(in, strat) ==
  LET brand == in.productName
      li == IF arrayIncludes(in.channels, LINKEDIN)
            THEN << [channel |-> LINKEDIN,
                     text |-> "Most analytics tools show everything. " \o brand
                       \o " shows what matters. " \o strat.valueProps[4]
                       \o ". " \o strat.primaryMessage] >>
            ELSE <<>>
      tw == IF arrayIncludes(in.channels, XTWITTER)
            THEN << [channel |-> XTWITTER,
                     text |-> "Funnels, cohorts, activation. Keep it simple. "
                       \o brand \o " ? outcomes > dashboards. #saas #growth"] >>
            ELSE <<>>
      ig == IF arrayIncludes(in.channels, INSTAGRAM)
            THEN << [channel |-> INSTAGRAM,
                     text |-> "Before ? drowning in charts. After ? one insight, one action. "
                       \o brand \o "."] >>
            ELSE <<>>
  IN li \o tw \o ig

buildAssets(in, strat) ==
  LET brand == in.productName
  IN [ headlines |->
         << brand \o " ? " \o sentenceCase(in.goal),
            "From guesswork to growth with " \o brand,
            brand \o ": analytics that turns insight into action" >>,
       adCopy |->
         << brand \o " helps " \o toLowerCase(in.audience) \o " "
              \o toLowerCase(in.goal) \o ". " \o strat.valueProps[3]
              \o ". Start in minutes.",
            "Stop drowning in dashboards. " \o brand
              \o " surfaces what moves the needle. " \o strat.valueProps[4]
              \o "." >>,
       emails |->
         << [ subject |-> brand \o " in 3 minutes: see what matters",
              preview |-> "A quick walkthrough and a real case study",
              body |-> "Hi there," \o NL \o NL
                \o "If analytics feels noisy, you're not alone. " \o brand
                \o " focuses on outcomes." \o NL \o NL
                \o "Why teams switch:" \o NL \o bullets(strat.valueProps)
                \o NL \o NL
                \o "Want a 3-minute walkthrough? Reply with \"demo\" and I?ll share a short video."
                \o NL \o NL \o "Best," \o NL \o brand \o " Team" ],
            [ subject |-> "How " \o brand \o " users improved activation by 24%",
              preview |-> "A simple cohort insight changed their onboarding",
              body |-> "Quick story: a SaaS team found a 24% activation lift after seeing a drop-off cohort at Day 2. They added an in-app nudge based on our insight."
                \o NL \o NL \o "It took an afternoon. Results stuck." \o NL \o NL
                \o "Curious what your data says? Happy to take a look and share a 1-pager." ] >>,
       social |-> buildSocial(in, strat) ]

(***************************************************************************)
(* URL and URLSearchParams as buildUtmUrl uses them.  The landing pages    *)
(* modelled are http(s) URLs already in the form the URL serializer emits  *)
(* (lower-case scheme and host, explicit path, no fragment), so the href   *)
(* of a parsed URL is its own text up to the query.                        *)
(***************************************************************************)

(* characters the application/x-www-form-urlencoded serializer escapes,    *)
(* and the two hexadecimal digits of each                                  *)
ESCAPED == "!\"#$%&'()+,/:;<=>?@[\\]^{|}~"
HEX_HI == "222222222222333333455557777"
HEX_LO == "123456789BCFABCDEF0BCDEBCDE"

encodeChar(c) ==
  IF c = " " THEN "+"
  ELSE IF c \in CharSet(ESCAPED)
  THEN LET i == position(ESCAPED, c)
       IN "%" \o At(HEX_HI, i) \o At(HEX_LO, i)
  ELSE c

RECURSIVE formEncode(_)
formEncode(s) ==
  IF Len(s) = 0 THEN "" ELSE encodeChar(At(s, 1)) \o formEncode(Rest(s))

RECURSIVE formDecode(_)
formDecode(s) ==
  IF Len(s) = 0 THEN ""
  ELSE IF At(s, 1) = "+" THEN " " \o formDecode(Rest(s))
  ELSE IF At(s, 1) = "%" /\ Len(s) >= 3
          /\ \E i \in 1..Len(ESCAPED) :
                At(HEX_HI, i) = At(s, 2) /\ At(HEX_LO, i) = At(s, 3)
  THEN At(ESCAPED, CHOOSE i \in 1..Len(ESCAPED) :
                     At(HEX_HI, i) = At(s, 2) /\ At(HEX_LO, i) = At(s, 3))
         \o formDecode(SubSeq(s, 4, Len(s)))
  ELSE At(s, 1) \o formDecode(Rest(s))

(* one name=value pair of a query string *)
parsePair(p) ==
  LET i == indexOf(p, "=")
  IN IF i = 0 THEN [key |-> formDecode(p), value |-> ""]
     ELSE [key |-> formDecode(SubSeq(p, 1, i - 1)),
           value |-> formDecode(SubSeq(p, i + 1, Len(p)))]

(* the list of pairs of a query string (without its '?') *)
parseQuery(q) ==
  LET parts == SelectSeq(split(q, "&"), LAMBDA p : Len(p) > 0)
  IN [i \in DOMAIN parts |-> parsePair(parts[i])]

serializeQuery(pairs) ==
  join([i \in DOMAIN pairs |->
          formEncode(pairs[i].key) \o "=" \o formEncode(pairs[i].value)],
       "&")

(* new URL(text): ok is FALSE when the constructor throws its TypeError,    *)
(* the text being no absolute URL (no http: or https: scheme, or no host)  *)
schemeEnd(text) ==
  IF startsWith(toLowerCase(sliceTo(text, 6)), "https:") THEN 6
  ELSE IF startsWith(toLowerCase(sliceTo(text, 5)), "http:") THEN 5
  ELSE 0

RECURSIVE skipSlashes(_)
skipSlashes(s) ==
  IF Len(s) > 0 /\ At(s, 1) \in {"/", "\\"} THEN skipSlashes(Rest(s)) ELSE s

newURL(text) ==
  LET n == schemeEnd(text)
      rest == skipSlashes(sliceFrom(text, n))
      q == indexOf(text, "?")
  IN IF n = 0 \/ Len(rest) = 0 \/ At(rest, 1) \in {"?", "#"}
     THEN [ok |-> FALSE, href |-> "", searchParams |-> <<>>]
     ELSE IF q = 0 THEN [ok |-> TRUE, href |-> text, searchParams |-> <<>>]
     ELSE [ok |-> TRUE, href |-> SubSeq(text, 1, q - 1),
           searchParams |-> parseQuery(SubSeq(text, q + 1, Len(text)))]

(* URLSearchParams.set: the first pair named k takes the value, the other  *)
(* pairs named k are removed; a new pair is appended when there is none    *)
searchParamsSet(pairs, k, v) ==
  LET first == CHOOSE i \in DOMAIN pairs :
                 pairs[i].key = k /\ \A j \in 1..(i - 1) : pairs[j].key # k
      idx == SelectSeq([i \in DOMAIN pairs |-> i],
                       LAMBDA i : pairs[i].key # k \/ i = first)
  IN IF \E i \in DOMAIN pairs : pairs[i].key = k
     THEN [n \in DOMAIN idx |->
             IF idx[n] = first THEN [key |-> k, value |-> v] ELSE pairs[idx[n]]]
     ELSE Append(pairs, [key |-> k, value |-> v])

(* URLSearchParams.get: the value of the first pair named k, if any *)
searchParamsGet(pairs, k) ==
  IF \E i \in DOMAIN pairs : pairs[i].key = k
  THEN Some(pairs[CHOOSE i \in DOMAIN pairs :
                    pairs[i].key = k /\ \A j \in 1..(i - 1) : pairs[j].key # k].value)
  ELSE None

(* URL.toString() *)
urlToString(u) ==
  IF Len(u.searchParams) = 0 THEN u.href
  ELSE u.href \o "?" \o serializeQuery(u.searchParams)

(***************************************************************************)
(* buildUtmUrl, agent.ts lines 118-129                                     *)
(***************************************************************************)

UTM_SOURCE == "utm_source"
UTM_MEDIUM == "utm_medium"
UTM_CAMPAIGN == "utm_campaign"
UTM_CONTENT == "utm_content"

(* buildUtmUrl without the try / catch: the parameters are set on whatever *)
(* the constructor left                                                    *)
buildUtmUrl_NoCatch(baseUrl, params) ==
  LET u == newURL(baseUrl)
      p1 == searchParamsSet(u.searchParams, UTM_SOURCE, params.source)
      p2 == searchParamsSet(p1, UTM_MEDIUM, params.medium)
      p3 == searchParamsSet(p2, UTM_CAMPAIGN, params.campaign)
  IN urlToString([href |-> u.href, searchParams |-> p3])

buildUtmUrl(baseUrl, params) ==
  LET u == newURL(baseUrl)
      p1 == searchParamsSet(u.searchParams, UTM_SOURCE, params.source)
      p2 == searchParamsSet(p1, UTM_MEDIUM, params.medium)
      p3 == searchParamsSet(p2, UTM_CAMPAIGN, params.campaign)
      p4 == IF Len(params.content) > 0
            THEN searchParamsSet(p3, UTM_CONTENT, params.content) ELSE p3
  IN IF ~u.ok THEN baseUrl   \* catch { return baseUrl; }
     ELSE urlToString([href |-> u.href, searchParams |-> p4])

(***************************************************************************)
(* buildCalendar, agent.ts lines 131-168                                   *)
(***************************************************************************)

(* if (input.landingUrl && ...): undefined and '' are falsy *)
hasLandingUrl(in) == IsSome(in.landingUrl) /\ Len(in.landingUrl[1]) > 0

(* utmMedium without the two special cases *)
utmMedium_AlwaysSocial(channel) == "social"

(* line 139 *)
utmMedium(channel) ==
  IF matchI(channel, "Email") THEN "email"
  ELSE IF matchI(channel, "Ads") THEN "cpc"
  ELSE "social"

(* the notes of an event, lines 137-147 *)
fullNotes(in, channel, title, notes) ==
  IF hasLandingUrl(in) /\ channel # WEBSITE
  THEN notes \o NL \o "Link: "
         \o buildUtmUrl(in.landingUrl[1],
                        [source |-> toLowerCase(channel),
                         medium |-> utmMedium(channel),
                         campaign |-> slugify(in.goal),
                         content |-> slugify(title)])
  ELSE notes

(* push, lines 135-149 *)
push(events, in, zone, offset, channel, title, notes) ==
  Append(events,
         [date |-> toISOString(addDays(startOfDay(in.startDate), offset), zone),
          channel |-> channel,
          title |-> title,
          notes |-> fullNotes(in, channel, title, notes)])

(* assets.social.forEach, lines 153-154, from element i on *)
RECURSIVE pushSocial(_, _, _, _, _, _)
pushSocial(events, in, zone, social, i, day) ==
  IF i > Len(social) THEN events
  ELSE pushSocial(push(events, in, zone, day, social[i].channel,
                       "Social post", social[i].text),
                  in, zone, social, i + 1, day + 2)

(* generated with the weekly recap pushed only when LinkedIn was requested *)
generated_RecapIfRequested(in, as, zone) ==
  LET e1 == push(<<>>, in, zone, 0, WEBSITE, "Hero + proof update",
                 "Add headline and 3 logos")
      e2 == pushSocial(e1, in, zone, as.social, 1, 1)
      e3 == IF arrayIncludes(in.channels, EMAIL)
            THEN push(push(e2, in, zone, 2, EMAIL, as.emails[1].subject,
                           as.emails[1].preview),
                      in, zone, 9, EMAIL, as.emails[2].subject, as.emails[2].preview)
            ELSE e2
      e4 == IF arrayIncludes(in.channels, ADS)
            THEN push(e3, in, zone, 1, ADS, "Launch search + retargeting",
                      "Focus on high-intent terms")
            ELSE e3
  IN IF arrayIncludes(in.channels, LINKEDIN)
     THEN push(e4, in, zone, 7, LINKEDIN, "Carousel: what we learned",
               "Founder POV, 5 slides")
     ELSE e4

(* the events pushed before the filter, lines 150-165 *)
generated(in, as, zone) ==
  LET e1 == push(<<>>, in, zone, 0, WEBSITE, "Hero + proof update",
                 "Add headline and 3 logos")
      e2 == pushSocial(e1, in, zone, as.social, 1, 1)
      e3 == IF arrayIncludes(in.channels, EMAIL)
            THEN push(push(e2, in, zone, 2, EMAIL, as.emails[1].subject,
                           as.emails[1].preview),
                      in, zone, 9, EMAIL, as.emails[2].subject, as.emails[2].preview)
            ELSE e2
      e4 == IF arrayIncludes(in.channels, ADS)
            THEN push(e3, in, zone, 1, ADS, "Launch search + retargeting",
                      "Focus on high-intent terms")
            ELSE e3
  IN push(e4, in, zone, 7, LINKEDIN, "Carousel: what we learned",
          "Founder POV, 5 slides")

(* withinDuration with a strict comparison *)
withinDuration_Strict(offset, days) == offset < days

(* the predicate of the filter, line 167 *)
withinDuration(offset, days) == offset <= days

(* insertion of an event into a list ordered by date *)
RECURSIVE insertByDate(_, _)
insertByDate(sorted, ev) ==
  IF Len(sorted) = 0 THEN <<ev>>
  ELSE IF isoUtcMinutes(ev.date) < isoUtcMinutes(sorted[1].date)
  THEN <<ev>> \o sorted
  ELSE <<sorted[1]>> \o insertByDate(Tail(sorted), ev)

RECURSIVE sortByDate(_)
sortByDate(events) ==
  IF Len(events) = 0 THEN <<>>
  ELSE insertByDate(sortByDate(SubSeq(events, 1, Len(events) - 1)),
                    events[Len(events)])

(* keepWithinDuration followed by a sort by date *)
keepWithinDuration_Sorted(events, start, days, zone) ==
  sortByDate(SelectSeq(events, LAMBDA ev :
               withinDuration(diffDays(dayjsParse(ev.date, zone), start), days)))

(* events.filter(...), line 167 *)
keepWithinDuration(events, start, days, zone) ==
  SelectSeq(events, LAMBDA ev :
              withinDuration(diffDays(dayjsParse(ev.date, zone), start), days))

buildCalendar(in, strat, as, zone) ==
  keepWithinDuration(generated(in, as, zone), startOfDay(in.startDate),
                     in.durationDays, zone)

(***************************************************************************)
(* csvEscape and toCalendarCsv, agent.ts lines 170-184                     *)
(***************************************************************************)

(* csvEscape that wraps the value and leaves its quotes single *)
csvEscape_QuotesNotDoubled(value) ==
  IF includes(value, "\"") \/ includes(value, ",") \/ includes(value, "\n")
  THEN "\"" \o value \o "\""
  ELSE value

csvEscape(value) ==
  IF includes(value, "\"") \/ includes(value, ",") \/ includes(value, NL)
  THEN "\"" \o replaceChar(value, "\"", "\"\"") \o "\""
  ELSE value

CSV_HEADER == <<"date", "channel", "title", "notes">>

csvLine(ev) ==
  LET fields == <<ev.date, ev.channel, ev.title, ev.notes>>
  IN join([i \in DOMAIN fields |-> csvEscape(fields[i])], ",")

toCalendarCsv(events) ==
  join(<<join(CSV_HEADER, ",")>> \o [i \in DOMAIN events |-> csvLine(events[i])],
       NL)

(***************************************************************************)
(* buildIcs, agent.ts lines 186-207                                        *)
(***************************************************************************)

(* Whether the dayjs in use has its utc plugin.  agent.ts imports dayjs    *)
(* alone (line 1) and never calls dayjs.extend, and the Dayjs class has no *)
(* utc method of its own: dayjs(ev.date).utc() on line 193 is a call of    *)
(* undefined and throws a TypeError.                                       *)
dayjsHasUtc == FALSE

(* dayjs(iso).utc(): the instant on the UTC clock *)
dayjsUtc(iso) == dayjsParse(iso, 0)

(* .add(1, 'hour') *)
addHour(t) ==
  LET m == localMinutes(t) + 60
  IN [day |-> m \div MinutesPerDay, min |-> m % MinutesPerDay]

(* the lines pushed for the event at 0-based index idx, lines 193-203 *)
icsEventLines(ev, idx) ==
  LET dt == dayjsUtc(ev.date)
      dtStart == formatIcs(dt)
      dtEnd == formatIcs(addHour(dt))
  IN << "BEGIN:VEVENT",
        "UID:" \o digits(idx) \o "-" \o dtStart \o "@campaign-agent",
        "DTSTAMP:" \o dtStart,
        "DTSTART:" \o dtStart,
        "DTEND:" \o dtEnd,
        "SUMMARY:" \o ev.channel \o ": " \o ev.title,
        "DESCRIPTION:" \o replaceChar(ev.notes, "\n", " "),
        "END:VEVENT" >>

RECURSIVE icsForEach(_, _)
icsForEach(events, i) ==
  IF i > Len(events) THEN <<>>
  ELSE icsEventLines(events[i], i - 1) \o icsForEach(events, i + 1)

(* threw: the TypeError of the first iteration of the forEach *)
buildIcs(events) ==
  IF Len(events) > 0 /\ ~dayjsHasUtc
  THEN [threw |-> TRUE, text |-> ""]
  ELSE [threw |-> FALSE,
        text |-> join(<< "BEGIN:VCALENDAR", "VERSION:2.0",
                         "PRODID:-//Campaign Agent//EN" >>
                        \o icsForEach(events, 1) \o <<"END:VCALENDAR">>,
                      NL)]

(* buildExportBundle, agent.ts lines 209-218: the properties are evaluated *)
(* in order, so buildIcs runs before toCalendarCsv                         *)
buildExportBundle(in, strat, as, cal) ==
  LET ics == buildIcs(cal)
  IN IF ics.threw THEN None
     ELSE Some([input |-> in, strategy |-> strat, assets |-> as, calendar |-> cal,
                ics |-> ics.text, csv |-> [calendar |-> toCalendarCsv(cal)]])

(***************************************************************************)
(* The inputs                                                              *)
(***************************************************************************)

(* bounds of the model *)
MaxChannelSeqLen == 2
MaxDuration == 10

(* Number(form.durationDays || 14), page.tsx line 119 *)
DefaultDuration == 14

(* defaultChannels, page.tsx line 74 *)
defaultChannels == <<WEBSITE, EMAIL, LINKEDIN, XTWITTER, INSTAGRAM, ADS>>

(* channels: every selection in the order of the form's check boxes, and   *)
(* every short list in any order, repeats included                         *)
ChannelLists ==
  {SelectSeq(defaultChannels, LAMBDA c : c \in S) : S \in SUBSET Channels}
    \cup UNION {[1..n -> Channels] : n \in 0..MaxChannelSeqLen}

Durations == (1..MaxDuration) \cup {DefaultDuration}

(* landingUrl: two absolute URLs (one with a query that already has a      *)
(* utm_source) and a text that is no absolute URL                          *)
PLAIN_URL == "https://acme.io/lp"
QUERY_URL == "https://acme.io/lp?ref=home&utm_source=old"
RELATIVE_URL == "acme.io/lp"

(* A profile is a startDate, the zone of the clock it was read on, and a   *)
(* landingUrl.  19723 is 2024-01-01 and 19782 is 2024-02-29.               *)
BaseProfile ==
  [startDate |-> [day |-> 19723, min |-> 0], zone |-> 0, landingUrl |-> None]

OtherProfiles ==
  { [startDate |-> [day |-> 19723, min |-> 615], zone |-> 120,
     landingUrl |-> Some(PLAIN_URL)],
    [startDate |-> [day |-> 19782, min |-> 0], zone |-> -300,
     landingUrl |-> Some(QUERY_URL)],
    [startDate |-> [day |-> 19723, min |-> 0], zone |-> 0,
     landingUrl |-> Some(RELATIVE_URL)],
    [startDate |-> [day |-> 19782, min |-> 615], zone |-> 120,
     landingUrl |-> Some("")] }

(* the durations every profile is run with: one that cuts the calendar     *)
(* and the form's default                                                  *)
ProfileDurations == {5, DefaultDuration}

(* the form's initial values, page.tsx lines 77-88 *)
formInput(channels, profile, days) ==
  [ goal |-> "Increase signups by 30% in 30 days",
    productName |-> "Acme Analytics",
    productDescription |->
      "A privacy-first analytics platform for SaaS with funnels, cohorts, and AI insights.",
    audience |-> "SaaS founders and growth teams at early to mid-stage startups",
    tone |-> "Confident, clear, value-oriented",
    channels |-> channels,
    budget |-> 5000,
    startDate |-> profile.startDate,
    durationDays |-> days,
    landingUrl |-> profile.landingUrl ]

(* every channel list with every duration under the base profile, and      *)
(* every channel list with the profile durations under the other profiles *)
Cases ==
  {[in |-> formInput(ch, BaseProfile, d), zone |-> BaseProfile.zone] :
     ch \in ChannelLists, d \in Durations}
    \cup
  {[in |-> formInput(ch, p, d), zone |-> p.zone] :
     ch \in ChannelLists, p \in OtherProfiles, d \in ProfileDurations}

(***************************************************************************)
(* The pipeline as its caller runs it (generate, page.tsx lines 106-132):  *)
(* buildStrategy, buildAssets, buildCalendar, buildExportBundle, in that   *)
(* order, each on the results of the ones before.                          *)
(***************************************************************************)

Init ==
  /\ \E c \in Cases : input = c.in /\ tz = c.zone
  /\ strategy = None
  /\ assets = None
  /\ calendar = <<>>
  /\ bundle = None
  /\ error = None
  /\ pc = "start"
  /\ csvText = None
  /\ icsText = None
  /\ slug = None

BuildStrategy ==
  /\ pc = "start"
  /\ strategy' = buildStrategy(input)
  /\ pc' = "strategy"
  /\ UNCHANGED <<input, tz, assets, calendar, bundle, error, csvText, icsText, slug>>

BuildAssets ==
  /\ pc = "strategy"
  /\ assets' = buildAssets(input, strategy)
  /\ pc' = "assets"
  /\ UNCHANGED <<input, tz, strategy, calendar, bundle, error, csvText, icsText, slug>>

BuildCalendar ==
  /\ pc = "assets"
  /\ calendar' = buildCalendar(input, strategy, assets, tz)
  /\ pc' = "calendar"
  /\ UNCHANGED <<input, tz, strategy, assets, bundle, error, csvText, icsText, slug>>

(* setBundle(b), or the catch of generate when buildExportBundle throws *)
BuildExportBundle ==
  /\ pc = "calendar"
  /\ bundle' = buildExportBundle(input, strategy, assets, calendar)
  /\ error' = IF IsSome(bundle') THEN None ELSE Some("TypeError")
  /\ pc' = "done"
  /\ UNCHANGED <<input, tz, strategy, assets, calendar, csvText, icsText, slug>>

Next == BuildStrategy \/ BuildAssets \/ BuildCalendar \/ BuildExportBundle

Spec == Init /\ [][Next]_vars

(***************************************************************************)
(* The serializers on their own: toCalendarCsv and buildIcs are exported   *)
(* and take any CalendarEvent[] (agent.ts lines 30-35, 177, 186).  The     *)
(* caller builds an array of events, typing text into the title and the    *)
(* notes of the newest one, and serializes it.                             *)
(***************************************************************************)

(* bounds of the model *)
MaxEvents == 2
MaxTypedChars == 3

(* an ordinary character and the three that csvEscape looks for *)
CsvAlphabet == {"a", ",", "\"", "\n"}

RECURSIVE typedChars(_)
typedChars(events) ==
  IF Len(events) = 0 THEN 0
  ELSE Len(events[1].title) + Len(events[1].notes) + typedChars(Tail(events))

InitExport ==
  /\ input = formInput(<<>>, BaseProfile, DefaultDuration)
  /\ tz = BaseProfile.zone
  /\ strategy = None
  /\ assets = None
  /\ calendar = <<>>
  /\ bundle = None
  /\ error = None
  /\ pc = "export"
  /\ csvText = None
  /\ icsText = None
  /\ slug = None

AddEvent ==
  /\ pc = "export"
  /\ csvText = None /\ icsText = None
  /\ Len(calendar) < MaxEvents
  /\ calendar' = Append(calendar,
                        [date |-> toISOString(startOfDay(input.startDate), tz),
                         channel |-> EMAIL, title |-> "", notes |-> ""])
  /\ UNCHANGED <<input, tz, strategy, assets, bundle, error, pc, csvText, icsText, slug>>

TypeChar ==
  /\ pc = "export"
  /\ csvText = None /\ icsText = None
  /\ Len(calendar) > 0
  /\ typedChars(calendar) < MaxTypedChars
  /\ \E c \in CsvAlphabet :
       LET n == Len(calendar) IN
       \/ calendar' = [calendar EXCEPT ![n].title = @ \o c]
       \/ calendar' = [calendar EXCEPT ![n].notes = @ \o c]
  /\ UNCHANGED <<input, tz, strategy, assets, bundle, error, pc, csvText, icsText, slug>>

ExportCsv ==
  /\ pc = "export"
  /\ csvText = None
  /\ csvText' = Some(toCalendarCsv(calendar))
  /\ UNCHANGED <<input, tz, strategy, assets, calendar, bundle, error, pc, icsText, slug>>

ExportIcs ==
  /\ pc = "export"
  /\ icsText = None
  /\ icsText' = Some(buildIcs(calendar))
  /\ UNCHANGED <<input, tz, strategy, assets, calendar, bundle, error, pc, csvText, slug>>

NextExport == AddEvent \/ TypeChar \/ ExportCsv \/ ExportIcs

SpecExport == InitExport /\ [][NextExport]_vars

(***************************************************************************)
(* slugify on a goal as it is typed into the form (onChange, page.tsx      *)
(* lines 93-96), starting from an empty goal or from one whose slug is two *)
(* characters short of the limit.                                          *)
(***************************************************************************)

(* bound of the model *)
MaxSlugTyped == 3

LONG_GOAL == "Increase signups by 30% in 30 days for early-stage SaaS app"

SlugAlphabet == {"s", "Z", "7", "-", " ", "!"}

(* the number of characters typed after the goal the run started from *)
slugTyped(goal) ==
  IF Len(goal) >= Len(LONG_GOAL) THEN Len(goal) - Len(LONG_GOAL) ELSE Len(goal)

InitSlug ==
  /\ \E g \in {"", LONG_GOAL} :
       input = [formInput(<<>>, BaseProfile, DefaultDuration) EXCEPT !.goal = g]
  /\ tz = BaseProfile.zone
  /\ strategy = None
  /\ assets = None
  /\ calendar = <<>>
  /\ bundle = None
  /\ error = None
  /\ pc = "slug"
  /\ csvText = None
  /\ icsText = None
  /\ slug = None

TypeGoal ==
  /\ pc = "slug"
  /\ slug = None
  /\ slugTyped(input.goal) < MaxSlugTyped
  /\ \E c \in SlugAlphabet : input' = [input EXCEPT !.goal = @ \o c]
  /\ UNCHANGED <<tz, strategy, assets, calendar, bundle, error, pc, csvText,
                 icsText, slug>>

(* campaign: slugify(input.goal), agent.ts line 143 *)
Slugify ==
  /\ pc = "slug"
  /\ slug = None
  /\ slug' = Some(slugify(input.goal))
  /\ UNCHANGED <<input, tz, strategy, assets, calendar, bundle, error, pc,
                 csvText, icsText>>

NextSlug == TypeGoal \/ Slugify

SpecSlug == InitSlug /\ [][NextSlug]_vars

(***************************************************************************)
(* Properties                                                              *)
(***************************************************************************)

StrategyBuilt == pc \in {"strategy", "assets", "calendar", "done"}
AssetsBuilt == pc \in {"assets", "calendar", "done"}
CalendarBuilt == pc \in {"calendar", "done"}

(* the set of the elements of an array *)
Elements(arr) == {arr[i] : i \in DOMAIN arr}

(* whole days from the campaign start to the date of an event *)
offsetOf(ev) == diffDays(dayjsParse(ev.date, tz), startOfDay(input.startDate))

(* the fixed generation sequence, as day, channel, title and the notes     *)
(* before any link is appended                                             *)
GenerationEntries ==
  <<[offset |-> 0, channel |-> "Website", title |-> "Hero + proof update",
     notes |-> "Add headline and 3 logos"]>>
    \o [i \in DOMAIN assets.social |->
          [offset |-> 1 + 2 * (i - 1), channel |-> assets.social[i].channel,
           title |-> "Social post", notes |-> assets.social[i].text]]
    \o (IF "Email" \in Elements(input.channels)
        THEN <<[offset |-> 2, channel |-> "Email", title |-> assets.emails[1].subject,
                notes |-> assets.emails[1].preview],
               [offset |-> 9, channel |-> "Email", title |-> assets.emails[2].subject,
                notes |-> assets.emails[2].preview]>>
        ELSE <<>>)
    \o (IF "Ads" \in Elements(input.channels)
        THEN <<[offset |-> 1, channel |-> "Ads", title |-> "Launch search + retargeting",
                notes |-> "Focus on high-intent terms"]>>
        ELSE <<>>)
    \o <<[offset |-> 7, channel |-> "LinkedIn", title |-> "Carousel: what we learned",
          notes |-> "Founder POV, 5 slides"]>>

(* the same as day, channel and title *)
GenerationSequence ==
  [i \in DOMAIN GenerationEntries |->
     [offset |-> GenerationEntries[i].offset, channel |-> GenerationEntries[i].channel,
      title |-> GenerationEntries[i].title]]

(* the notes, before any link, of the entries that the filter keeps *)
KeptNotes ==
  LET kept == SelectSeq(GenerationEntries,
                        LAMBDA c : c.offset <= input.durationDays)
  IN [i \in DOMAIN kept |-> kept[i].notes]

(* the calendar as day, channel and title *)
CalendarSlots ==
  [i \in DOMAIN calendar |->
     [offset |-> offsetOf(calendar[i]), channel |-> calendar[i].channel,
      title |-> calendar[i].title]]

RECURSIVE IsSubsequence(_, _)
IsSubsequence(a, b) ==
  IF Len(a) = 0 THEN TRUE
  ELSE IF Len(b) = 0 THEN FALSE
  ELSE IF a[1] = b[1] THEN IsSubsequence(Tail(a), Tail(b))
  ELSE IsSubsequence(a, Tail(b))

(* C1: every event returned by buildCalendar has a whole-day offset from   *)
(* the campaign start in the half-open range [0, durationDays).            *)
C1_DatesInHalfOpenWindow ==
  CalendarBuilt =>
    \A i \in DOMAIN calendar :
      0 <= offsetOf(calendar[i]) /\ offsetOf(calendar[i]) < input.durationDays

(* C2: buildCalendar returns exactly the generated candidates whose offset *)
(* is <= durationDays, in order, each dated start + offset (not clamped).  *)
C2_FilterKeepsUpToDuration ==
  CalendarBuilt =>
    /\ CalendarSlots =
         SelectSeq(GenerationSequence, LAMBDA c : c.offset <= input.durationDays)
    /\ \A i \in DOMAIN calendar :
         calendar[i].date =
           toISOString(addDays(startOfDay(input.startDate),
                               CalendarSlots[i].offset), tz)

(* C2 witness: a candidate was dropped and a candidate at offset           *)
(* durationDays was kept *)
C2_Witness ==
  /\ CalendarBuilt
  /\ Len(calendar) < Len(GenerationSequence)
  /\ \E i \in DOMAIN calendar : offsetOf(calendar[i]) = input.durationDays

(* C3: the calendar is an order-preserving subsequence of the generation   *)
(* sequence; it is not re-sorted by date.                                  *)
C3_GenerationOrderKept ==
  CalendarBuilt => IsSubsequence(CalendarSlots, GenerationSequence)

(* C3 witness: Email at day 9 stands right before LinkedIn at day 7 *)
C3_Witness ==
  /\ CalendarBuilt
  /\ \E i \in 1..(Len(calendar) - 1) :
       /\ calendar[i].channel = "Email" /\ offsetOf(calendar[i]) = 9
       /\ calendar[i + 1].channel = "LinkedIn" /\ offsetOf(calendar[i + 1]) = 7

(* C4: the keys of channelsPlan are exactly the channels of input.channels *)
(* and every entry has a non-empty objective, strategy and kpis list.      *)
C4_ChannelsPlanKeys ==
  StrategyBuilt =>
    /\ DOMAIN strategy.channelsPlan = Elements(input.channels)
    /\ \A k \in DOMAIN strategy.channelsPlan :
         /\ Len(strategy.channelsPlan[k].objective) > 0
         /\ Len(strategy.channelsPlan[k].strategy) > 0
         /\ Len(strategy.channelsPlan[k].kpis) > 0

(* C4 witness: a plan built from a list with a repeated channel, and one   *)
(* built from a list that is not in the order of the table                 *)
C4_Witness ==
  /\ StrategyBuilt
  /\ input.channels \in {<<"Ads", "Ads">>, <<"Ads", "Website">>}
  /\ DOMAIN strategy.channelsPlan = Elements(input.channels)

(* C5: social has one entry for each of LinkedIn, X/Twitter, Instagram     *)
(* that is in input.channels, in that fixed order, and nothing else.       *)
C5_SocialFixedOrder ==
  AssetsBuilt =>
    /\ [i \in DOMAIN assets.social |-> assets.social[i].channel] =
         SelectSeq(<<"LinkedIn", "X/Twitter", "Instagram">>,
                   LAMBDA c : c \in Elements(input.channels))
    /\ \A i \in DOMAIN assets.social :
         assets.social[i].channel \in Elements(input.channels)
    /\ Len(assets.social) <= 3

(* C5 witness: Instagram requested before LinkedIn, LinkedIn listed first *)
C5_Witness ==
  /\ AssetsBuilt
  /\ input.channels = <<"Instagram", "LinkedIn">>
  /\ Len(assets.social) = 2
  /\ assets.social[1].channel = "LinkedIn"

(* the last line of a text, and whether a text ends with an appended line  *)
(* that starts with "Link: "                                               *)
lastLine(text) == LET ls == split(text, "\n") IN ls[Len(ls)]
EndsWithLinkLine(text) ==
  Len(split(text, "\n")) >= 2 /\ startsWith(lastLine(text), "Link: ")
linkOf(text) == sliceFrom(lastLine(text), 6)

(* the utm_medium that the claim gives a channel *)
ClaimedMedium(channel) ==
  CASE channel = "Email" -> "email" [] channel = "Ads" -> "cpc" [] OTHER -> "social"

(* the link carries the four UTM parameters of the event *)
CarriesUtm(link, ev) ==
  LET u == newURL(link)
  IN /\ u.ok
     /\ searchParamsGet(u.searchParams, "utm_source") = Some(toLowerCase(ev.channel))
     /\ searchParamsGet(u.searchParams, "utm_medium") = Some(ClaimedMedium(ev.channel))
     /\ searchParamsGet(u.searchParams, "utm_campaign") = Some(slugify(input.goal))
     /\ searchParamsGet(u.searchParams, "utm_content") = Some(slugify(ev.title))

LinkExpected(ev) == hasLandingUrl(input) /\ ev.channel # "Website"

(* C6 as stated: notes end with a line 'Link: <url>' iff landingUrl is set *)
(* and the channel is not Website, every such link carries the four UTM    *)
(* parameters, and the other notes are unchanged.                          *)
C6_EveryLinkCarriesUtm ==
  CalendarBuilt =>
    \A i \in DOMAIN calendar :
      LET ev == calendar[i] IN
      /\ EndsWithLinkLine(ev.notes) <=> LinkExpected(ev)
      /\ LinkExpected(ev) =>
           /\ ev.notes = KeptNotes[i] \o "\nLink: " \o linkOf(ev.notes)
           /\ CarriesUtm(linkOf(ev.notes), ev)
      /\ ~LinkExpected(ev) => ev.notes = KeptNotes[i]

(* C6 amended: as C6, the link carrying the four UTM parameters when       *)
(* landingUrl is an absolute URL and being landingUrl itself when not.     *)
C6_LinkCarriesUtmWhenUrlParses ==
  CalendarBuilt =>
    \A i \in DOMAIN calendar :
      LET ev == calendar[i] IN
      /\ EndsWithLinkLine(ev.notes) <=> LinkExpected(ev)
      /\ LinkExpected(ev) =>
           /\ ev.notes = KeptNotes[i] \o "\nLink: " \o linkOf(ev.notes)
           /\ IF newURL(input.landingUrl[1]).ok
              THEN CarriesUtm(linkOf(ev.notes), ev)
              ELSE linkOf(ev.notes) = input.landingUrl[1]
      /\ ~LinkExpected(ev) => ev.notes = KeptNotes[i]

(* C6 witness: links of an Email, an Ads and an X/Twitter event under an   *)
(* absolute landingUrl, next to the Website event without one              *)
C6_Witness ==
  /\ CalendarBuilt
  /\ hasLandingUrl(input) /\ newURL(input.landingUrl[1]).ok
  /\ \A ch \in {"Email", "Ads", "X/Twitter"} :
       \E i \in DOMAIN calendar :
         /\ calendar[i].channel = ch
         /\ CarriesUtm(linkOf(calendar[i].notes), calendar[i])
  /\ calendar[1].channel = "Website" /\ ~EndsWithLinkLine(calendar[1].notes)

(* C7: with a landingUrl that is no absolute URL, buildCalendar raises no  *)
(* error, returns the events it returns for an absolute landingUrl (same   *)
(* count, dates, channels, titles) and appends landingUrl unchanged.       *)
C7_InvalidUrlFailsSoft ==
  (CalendarBuilt /\ hasLandingUrl(input) /\ ~newURL(input.landingUrl[1]).ok) =>
    LET valid == buildCalendar([input EXCEPT !.landingUrl = Some(PLAIN_URL)],
                               strategy, assets, tz)
    IN /\ pc = "calendar" => error = None
       /\ Len(calendar) = Len(valid)
       /\ \A i \in DOMAIN calendar :
            /\ calendar[i].date = valid[i].date
            /\ calendar[i].channel = valid[i].channel
            /\ calendar[i].title = valid[i].title
            /\ calendar[i].channel # "Website" =>
                 calendar[i].notes = KeptNotes[i] \o "\nLink: " \o input.landingUrl[1]

(* C7 witness: a calendar of several events built under the relative URL,  *)
(* one of them with the URL appended as it is                              *)
C7_Witness ==
  /\ CalendarBuilt
  /\ input.landingUrl = Some(RELATIVE_URL)
  /\ Len(calendar) >= 3
  /\ \E i \in DOMAIN calendar : linkOf(calendar[i].notes) = RELATIVE_URL

(* A reader of comma-separated text: a position is inside quotes when an   *)
(* odd number of quote characters precede it; rows end at newlines and     *)
(* fields at commas outside quotes; a quoted field is read without its     *)
(* outer quotes and with each doubled quote as one quote.                  *)
csvInsideQuotes(text, i) ==
  Cardinality({j \in 1..(i - 1) : At(text, j) = "\""}) % 2 = 1

csvBreaks(text, c) ==
  {i \in 1..Len(text) : At(text, i) = c /\ ~csvInsideQuotes(text, i)}

(* the k-th smallest element of a set of numbers *)
nthOf(S, k) == CHOOSE p \in S : Cardinality({q \in S : q < p}) = k - 1

(* the ranges <<first, last>> between the breaks that lie in lo..hi *)
csvRanges(lo, hi, breaks) ==
  LET inside == {b \in breaks : lo <= b /\ b <= hi}
      n == Cardinality(inside)
  IN [k \in 1..(n + 1) |->
        <<IF k = 1 THEN lo ELSE nthOf(inside, k - 1) + 1,
          IF k = n + 1 THEN hi ELSE nthOf(inside, k) - 1>>]

RECURSIVE csvUndouble(_)
csvUndouble(s) ==
  IF Len(s) = 0 THEN ""
  ELSE IF Len(s) >= 2 /\ SubSeq(s, 1, 2) = "\"\"" THEN "\"" \o csvUndouble(SubSeq(s, 3, Len(s)))
  ELSE At(s, 1) \o csvUndouble(Rest(s))

csvUnquote(f) ==
  IF Len(f) >= 2 /\ At(f, 1) = "\"" /\ At(f, Len(f)) = "\""
  THEN csvUndouble(SubSeq(f, 2, Len(f) - 1))
  ELSE f

csvRead(text) ==
  LET rows == csvRanges(1, Len(text), csvBreaks(text, "\n"))
      commas == csvBreaks(text, ",")
  IN [r \in DOMAIN rows |->
        LET fields == csvRanges(rows[r][1], rows[r][2], commas)
        IN [f \in DOMAIN fields |->
              csvUnquote(SubSeq(text, fields[f][1], fields[f][2]))]]

(* number of positions of s that hold a character of the set cs *)
countChars(s, cs) == Cardinality({i \in 1..Len(s) : At(s, i) \in cs})

(* the length of a field as the claim has it written: wrapped in quotes,   *)
(* its quotes doubled, iff it has a comma, a quote or a newline            *)
ClaimedFieldLen(f) ==
  IF countChars(f, {",", "\"", "\n"}) > 0
  THEN Len(f) + 2 + countChars(f, {"\""})
  ELSE Len(f)

RECURSIVE ClaimedRowsLen(_)
ClaimedRowsLen(events) ==
  IF Len(events) = 0 THEN 0
  ELSE 1 + ClaimedFieldLen(events[1].date) + 1 + ClaimedFieldLen(events[1].channel)
         + 1 + ClaimedFieldLen(events[1].title) + 1 + ClaimedFieldLen(events[1].notes)
         + ClaimedRowsLen(Tail(events))

(* C8: toCalendarCsv is the header row and one row per event in order,     *)
(* joined by single newlines with no trailing newline; a field is wrapped  *)
(* in quotes with its quotes doubled iff it has a comma, quote or newline. *)
C8_CsvRowsAndQuoting ==
  IsSome(csvText) =>
    LET text == csvText[1] IN
    /\ csvRead(text) =
         <<<<"date", "channel", "title", "notes">>>>
           \o [i \in DOMAIN calendar |->
                 <<calendar[i].date, calendar[i].channel, calendar[i].title,
                   calendar[i].notes>>]
    /\ Len(text) = Len("date,channel,title,notes") + ClaimedRowsLen(calendar)
    /\ At(text, Len(text)) # "\n"
    /\ csvEscape("a, b") = "\"a, b\""
    /\ csvEscape("He said \"hi\"") = "\"He said \"\"hi\"\"\""

(* C8 witness: the text of two events, with a quote in the first and a     *)
(* comma and a newline in the second                                       *)
C8_Witness ==
  /\ IsSome(csvText)
  /\ Len(calendar) = 2
  /\ includes(calendar[1].notes, "\"")
  /\ includes(calendar[2].title, ",")
  /\ includes(calendar[2].notes, "\n")

(* the lines of a text that are equal to, or start with, a given text *)
linesEqual(text, line) == SelectSeq(split(text, "\n"), LAMBDA l : l = line)
linesStarting(text, prefix) ==
  SelectSeq(split(text, "\n"), LAMBDA l : startsWith(l, prefix))

(* C9: for K events buildIcs emits the three header lines, K blocks from   *)
(* BEGIN:VEVENT to END:VEVENT in order, and END:VCALENDAR; the block at    *)
(* 0-based position i has the UID i-dtStart@campaign-agent, so the UIDs    *)
(* are pairwise distinct, and its DESCRIPTION is a single line.            *)
C9_IcsBlocksAndUids ==
  IsSome(icsText) =>
    LET r == icsText[1]
        ls == split(r.text, "\n")
        uids == linesStarting(r.text, "UID:")
    IN /\ ~r.threw
       /\ SubSeq(ls, 1, 3) = <<"BEGIN:VCALENDAR", "VERSION:2.0",
                               "PRODID:-//Campaign Agent//EN">>
       /\ ls[Len(ls)] = "END:VCALENDAR"
       /\ Len(linesEqual(r.text, "BEGIN:VEVENT")) = Len(calendar)
       /\ Len(linesEqual(r.text, "END:VEVENT")) = Len(calendar)
       /\ uids = [i \in DOMAIN calendar |->
                    "UID:" \o digits(i - 1) \o "-"
                      \o formatIcs(dayjsParse(calendar[i].date, 0))
                      \o "@campaign-agent"]
       /\ \A i, j \in DOMAIN uids : i # j => uids[i] # uids[j]
       /\ linesStarting(r.text, "DESCRIPTION:") =
            [i \in DOMAIN calendar |->
               "DESCRIPTION:" \o replaceChar(calendar[i].notes, "\n", " ")]

(* C10: channels [Website, Email], durationDays 14, no landingUrl: the     *)
(* plan has the keys Website and Email, the calendar is Website day 0,     *)
(* Email day 2, Email day 9, LinkedIn day 7, the CSV has 5 lines and the   *)
(* ICS has 4 VEVENT blocks.                                                *)
C10_EndToEndScenario ==
  (/\ pc = "done"
   /\ input.channels = <<"Website", "Email">>
   /\ input.durationDays = 14
   /\ ~hasLandingUrl(input)) =>
    /\ DOMAIN strategy.channelsPlan = {"Website", "Email"}
    /\ [i \in DOMAIN calendar |->
          <<offsetOf(calendar[i]), calendar[i].channel>>] =
         << <<0, "Website">>, <<2, "Email">>, <<9, "Email">>, <<7, "LinkedIn">> >>
    /\ IsSome(bundle)
    /\ Len(split(bundle[1].csv.calendar, "\n")) = 5
    /\ Len(linesEqual(bundle[1].ics, "BEGIN:VEVENT")) = 4

(* C11: buildExportBundle never fails on built arguments and returns them  *)
(* unchanged as input, strategy, assets and calendar, next to              *)
(* ics = buildIcs(calendar) and csv.calendar = toCalendarCsv(calendar).    *)
C11_BundleIsPureAggregation ==
  pc = "done" =>
    /\ error = None
    /\ IsSome(bundle)
    /\ bundle[1].input = input
    /\ bundle[1].strategy = strategy
    /\ bundle[1].assets = assets
    /\ bundle[1].calendar = calendar
    /\ bundle[1].ics = buildIcs(calendar).text
    /\ bundle[1].csv.calendar = toCalendarCsv(calendar)

(* the calendar as day and channel with the two fixed titles *)
HeroAtDay0 ==
  [offset |-> 0, channel |-> "Website", title |-> "Hero + proof update"]
RecapAtDay7 ==
  [offset |-> 7, channel |-> "LinkedIn", title |-> "Carousel: what we learned"]

(* C12: whatever input.channels is, the calendar starts with the Website   *)
(* event at day 0 and, when durationDays >= 7, ends with the LinkedIn      *)
(* event at day 7, so it is never empty; with channels = [] social is      *)
(* empty and the calendar is exactly these events.                         *)
C12_HeroAndRecapUnconditional ==
  CalendarBuilt =>
    /\ Len(calendar) >= 1
    /\ CalendarSlots[1] = HeroAtDay0
    /\ input.durationDays >= 7 => CalendarSlots[Len(calendar)] = RecapAtDay7
    /\ input.channels = <<>> =>
         /\ assets.social = <<>>
         /\ CalendarSlots = IF input.durationDays >= 7
                            THEN <<HeroAtDay0, RecapAtDay7>>
                            ELSE <<HeroAtDay0>>

(* C12 witness: no channel requested, durationDays = 7, and the calendar   *)
(* holds the Website and the LinkedIn event                                *)
C12_Witness ==
  /\ CalendarBuilt
  /\ input.channels = <<>>
  /\ input.durationDays = 7
  /\ Len(calendar) = 2
  /\ calendar[1].channel = "Website" /\ calendar[2].channel = "LinkedIn"

(* The slug as the rule words it, position by position: a character of    *)
(* the lowercased text that is a letter or digit stands for itself, the    *)
(* first character of a run of others stands for one hyphen, the rest of   *)
(* the run for nothing.                                                    *)
RECURSIVE RuleHyphenated(_, _, _)
RuleHyphenated(low, from, to) ==
  IF from > to THEN ""
  ELSE IF from = to
  THEN (IF At(low, from) \in CharSet("abcdefghijklmnopqrstuvwxyz0123456789")
        THEN At(low, from)
        ELSE IF from > 1 /\ At(low, from - 1)
                  \notin CharSet("abcdefghijklmnopqrstuvwxyz0123456789")
        THEN ""
        ELSE "-")
  ELSE RuleHyphenated(low, from, (from + to) \div 2)
         \o RuleHyphenated(low, ((from + to) \div 2) + 1, to)

(* ... then without a leading and without a trailing hyphen *)
RuleStripped(s) ==
  LET h == RuleHyphenated(toLowerCase(s), 1, Len(s))
      first == IF Len(h) >= 1 /\ At(h, 1) = "-" THEN 2 ELSE 1
      last == IF Len(h) >= first /\ At(h, Len(h)) = "-" THEN Len(h) - 1 ELSE Len(h)
  IN SubSeq(h, first, last)

(* ... then the first 60 characters *)
RuleSlug(s) ==
  LET t == RuleStripped(s)
  IN SubSeq(t, 1, IF Len(t) < 60 THEN Len(t) ELSE 60)

(* C13 as stated: slugify(s) is the slug of the rule, so it has at most 60 *)
(* characters, all of them in [a-z0-9-], no two adjacent hyphens, and no   *)
(* leading or trailing hyphen.                                             *)
C13_SlugHasNoEdgeHyphen ==
  IsSome(slug) =>
    LET r == slug[1] IN
    /\ r = RuleSlug(input.goal)
    /\ Len(r) <= 60
    /\ \A i \in 1..Len(r) :
         At(r, i) \in CharSet("abcdefghijklmnopqrstuvwxyz0123456789-")
    /\ \A i \in 1..(Len(r) - 1) : ~(At(r, i) = "-" /\ At(r, i + 1) = "-")
    /\ Len(r) > 0 => At(r, 1) # "-"
    /\ Len(r) > 0 => At(r, Len(r)) # "-"

(* C13 amended: as C13, the slug ending with a hyphen only when the        *)
(* stripped text was longer than 60 characters and was cut after a hyphen. *)
C13_SlugEndsWithHyphenOnlyWhenCut ==
  IsSome(slug) =>
    LET r == slug[1] IN
    /\ r = RuleSlug(input.goal)
    /\ Len(r) <= 60
    /\ \A i \in 1..Len(r) :
         At(r, i) \in CharSet("abcdefghijklmnopqrstuvwxyz0123456789-")
    /\ \A i \in 1..(Len(r) - 1) : ~(At(r, i) = "-" /\ At(r, i + 1) = "-")
    /\ Len(r) > 0 => At(r, 1) # "-"
    /\ (Len(r) > 0 /\ At(r, Len(r)) = "-") =>
         Len(r) = 60 /\ Len(RuleStripped(input.goal)) > 60

(* C13 witness: the slug of a goal with upper case, a run of two other     *)
(* characters and a hyphen, cut at 60 characters right after a hyphen      *)
C13_Witness ==
  /\ IsSome(slug)
  /\ input.goal = LONG_GOAL \o "s!s"
  /\ slug[1] = "increase-signups-by-30-in-30-days-for-early-stage-saas-apps-"

====
